---- MODULE Spec2Model ----
(***************************************************************************)
(* Model of the transaction throttler facade of vttablet                   *)
(* (go/vt/vttablet/tabletserver/txthrottler/tx_throttler.go).              *)
(*                                                                         *)
(* The heap is modelled by sequences of objects; a reference is the index  *)
(* of the object in its sequence and 0 is the nil reference.               *)
(***************************************************************************)
EXTENDS Integers, Sequences, FiniteSets, TLC

VARIABLES
    tabletConfig,  \* the tabletenv.TabletConfig NewTxThrottler was given
    config,        \* TxThrottler.config
    state,         \* TxThrottler.state: 0 (nil) or a reference into stateObjs
    target,        \* TxThrottler.target
    stateObjs,     \* every txThrottlerState allocated so far
    throttlers,    \* every ThrottlerInterface object returned by throttlerFactory
    healthChecks,  \* every discovery.HealthCheck returned by healthCheckFactory
    consumers,     \* every goroutine spawned by createTxThrottlerHealthCheck
    watchers,      \* every TopologyWatcherInterface returned by topologyWatcherFactory
    lastCall,      \* the facade call that completed last and what it did
    delivered,     \* number of events the health stream has delivered so far
    callers,       \* the goroutines that call Throttle(): where each one is
    throttleMu,    \* txThrottlerState.throttleMu: the pairs <<state, holder>>
    opening,       \* the Open() that has built its result and not stored it yet
    callerTarget,  \* the *querypb.Target the caller gave to InitDBConfig, as it is now
    aliased        \* the fields of the throttler that point into an object of the caller

vars == <<tabletConfig, config, state, target, stateObjs, throttlers, healthChecks,
          consumers, watchers, lastCall, delivered, callers, throttleMu, opening,
          callerTarget, aliased>>

\* the variables only concurrent callers change
concVars == <<callers, throttleMu, opening>>

\* the variables that tell what the throttler shares with its caller
callerVars == <<callerTarget, aliased>>

----------------------------------------------------------------------------
(* Bounds *)

\* cap on the number of throttler objects the throttler factory hands out
MaxOpens == 2
\* capacity of the channel returned by HealthCheck.Subscribe()
ChanCap == 1
\* cap on the number of events the health stream delivers
MaxEvents == 1
\* number of goroutines that call Throttle() concurrently
NumCallers == 2
\* cap on the number of lag samples the health stream delivers to the
\* controller
MaxSamples == 2

----------------------------------------------------------------------------
(* Values *)

\* throttler.MaxRateModuleDisabled (math.MaxInt64 in the code, the largest
\* integer of the model here)
MaxRateModuleDisabled == 2147483647

\* the name under which the wrapped throttler registers
TxThrottlerName == "TransactionThrottler"

\* values of tabletenv.TabletConfig.TxThrottlerHealthCheckCells
CellLists == {<< >>, <<"zone1">>, <<"zone1", "zone2">>}

\* values of tabletenv.TabletConfig.TxThrottlerConfig: a text that parses and
\* verifies, one that parses but fails Verify(), one that does not parse
ConfigTexts == {"valid", "unverifiable", "unparsable"}

TabletConfigs ==
    [EnableTxThrottler : BOOLEAN,
     TxThrottlerConfig : ConfigTexts,
     TxThrottlerHealthCheckCells : CellLists]

\* the nil *querypb.Target
NilTarget == [isNil |-> TRUE, Keyspace |-> "", Shard |-> "", Cell |-> ""]

Targets ==
    {[isNil |-> FALSE, Keyspace |-> k, Shard |-> "0", Cell |-> "zone1"] :
        k \in {"ks1", "ks2"}}

\* the rate floor of a controller whose parameters name none
DefaultMinRate == 1

\* the nil *throttlerdatapb.Configuration
NilThrottlerConfig ==
    [isNil |-> TRUE, MaxReplicationLagSec |-> 0, MinRate |-> 0, verifies |-> FALSE]

\* a health event: the tablet's role, target and identity and the replication
\* lag it reports, in seconds
TabletHealth(type, shard, uid, lag) ==
    [TabletType |-> type, Keyspace |-> "ks1", Shard |-> shard,
     Uid |-> uid, Lag |-> lag]

\* health events delivered by the health stream: a lagging replica of the
\* target shard, a replica of another shard, a primary and a read-only tablet
TabletHealths ==
    {TabletHealth("REPLICA", "0", 1, 20),
     TabletHealth("REPLICA", "1", 3, 20),
     TabletHealth("PRIMARY", "0", 4, 60),
     TabletHealth("RDONLY",  "0", 5, 60)}

\* the lag samples of the replicas of the target shard: one replica reports
\* no lag, the lag of the configuration, a lag above it and a negative lag, a
\* second one a lag above the high-water mark
ReplicaHealths ==
    {TabletHealth("REPLICA", "0", 1, 0),
     TabletHealth("REPLICA", "0", 1, 10),
     TabletHealth("REPLICA", "0", 1, 20),
     TabletHealth("REPLICA", "0", 1, -1),
     TabletHealth("REPLICA", "0", 2, 60)}

\* durations ThrottlerInterface.Throttle may return
CoreWaits == {0, 1, 2}

----------------------------------------------------------------------------
(* Construction *)

\* prototext.Unmarshal of TabletConfig.TxThrottlerConfig
Unmarshal(text) ==
    IF text = "unparsable"
    THEN [err |-> TRUE, cfg |-> NilThrottlerConfig]
    ELSE [err |-> FALSE,
          cfg |-> [isNil |-> FALSE, MaxReplicationLagSec |-> 10,
                   MinRate |-> IF text = "valid-minrate-0"
                               THEN 0 ELSE DefaultMinRate,
                   verifies |-> (text \in {"valid", "valid-minrate-0"})]]

\* a disabled txThrottlerConfig: &txThrottlerConfig{enabled: false}
DisabledConfig ==
    [enabled |-> FALSE, throttlerConfig |-> NilThrottlerConfig,
     healthCheckCells |-> << >>]

\* newTxThrottler that accepts an empty cell list
newTxThrottler_NoCellCheck(cfg) ==
    IF cfg.enabled /\ ~cfg.throttlerConfig.verifies
    THEN [err |-> TRUE, config |-> DisabledConfig]
    ELSE [err |-> FALSE, config |-> cfg]

\* newTxThrottler that does not verify the throttler configuration
newTxThrottler_NoVerify(cfg) ==
    IF cfg.enabled /\ Len(cfg.healthCheckCells) = 0
    THEN [err |-> TRUE, config |-> DisabledConfig]
    ELSE [err |-> FALSE, config |-> cfg]

\* newTxThrottler: the error it returns, and the throttler otherwise
newTxThrottler(cfg) ==
    IF cfg.enabled /\ ~cfg.throttlerConfig.verifies
    THEN [err |-> TRUE, config |-> DisabledConfig]
    ELSE IF cfg.enabled /\ Len(cfg.healthCheckCells) = 0
    THEN [err |-> TRUE, config |-> DisabledConfig]
    ELSE [err |-> FALSE, config |-> cfg]

\* the cell list that keeps the caller's slice instead of copying it
StoredCells_NoCopy(cells) == [value |-> cells, aliased |-> TRUE]

\* the cell list tryCreateTxThrottler stores: make() and copy() give the
\* throttler a slice of its own, which holds what the caller's slice holds
StoredCells(cells) == [value |-> cells, aliased |-> FALSE]

tryCreateTxThrottler(tc) ==
    IF ~tc.EnableTxThrottler
    THEN newTxThrottler(DisabledConfig)
    ELSE IF Unmarshal(tc.TxThrottlerConfig).err
    THEN [err |-> TRUE, config |-> DisabledConfig]
    ELSE newTxThrottler(
            [enabled |-> TRUE,
             throttlerConfig |-> Unmarshal(tc.TxThrottlerConfig).cfg,
             healthCheckCells |->
                StoredCells(tc.TxThrottlerHealthCheckCells).value])

\* NewTxThrottler: the config of the throttler it returns
NewTxThrottler(tc) ==
    IF tryCreateTxThrottler(tc).err
    THEN newTxThrottler(DisabledConfig).config
    ELSE tryCreateTxThrottler(tc).config

\* the record of a facade call that has nothing else to report
Call(op, outcome) ==
    [op |-> op, outcome |-> outcome, err |-> FALSE, result |-> FALSE,
     threadId |-> -1, wait |-> -1, trace |-> << >>]

\* NewTxThrottler panics when even the disabled throttler cannot be created
NewTxThrottlerPanics(tc) ==
    tryCreateTxThrottler(tc).err /\ newTxThrottler(DisabledConfig).err

Callers == 1..NumCallers

\* no Open() is between building its result and storing it
NotOpening == [active |-> FALSE, state |-> 0, call |-> Call("Open", "return")]

\* the state after NewTxThrottler was given one of the configurations
InitWith(tabletConfigs) ==
    /\ tabletConfig \in tabletConfigs
    /\ config = NewTxThrottler(tabletConfig)
    /\ state = 0
    /\ target = NilTarget
    /\ stateObjs = << >>
    /\ throttlers = << >>
    /\ healthChecks = << >>
    /\ consumers = << >>
    /\ watchers = << >>
    /\ lastCall = Call("NewTxThrottler",
                       IF NewTxThrottlerPanics(tabletConfig)
                       THEN "panic" ELSE "return")
    /\ delivered = 0
    /\ callers = [i \in Callers |-> [pc |-> "idle", ts |-> 0]]
    /\ throttleMu = {}
    /\ opening = NotOpening
    /\ callerTarget = NilTarget
    /\ aliased =
          IF config.enabled
                /\ StoredCells(tabletConfig.TxThrottlerHealthCheckCells).aliased
          THEN {"healthCheckCells"} ELSE {}

Init == InitWith(TabletConfigs)

----------------------------------------------------------------------------
(* The heap: every object allocated so far *)

Heap ==
    [stateObjs |-> stateObjs, throttlers |-> throttlers,
     healthChecks |-> healthChecks, consumers |-> consumers,
     watchers |-> watchers]

\* one entry of lastCall.trace: an operation invoked on a subordinate
Ev(op, ref) == [op |-> op, ref |-> ref]

----------------------------------------------------------------------------
(* The object behind ThrottlerInterface: the rate limiter core and the      *)
(* lag-driven rate controller                                               *)

\* number of evaluation ticks after which a sample is stale
StalenessWindow == 2
\* the lag above which the controller drops the rate to the floor
HighWaterLag == 30
\* the factor of the multiplicative decrease
DecreaseFactor == 2
\* the step of the additive increase
IncreaseStep == 1
\* the ceiling of the additive increase
RateCeiling == 4

Max(a, b) == IF a >= b THEN a ELSE b

Min(a, b) == IF a <= b THEN a ELSE b

\* the parameters of a throttler that UpdateConfiguration has not been called on
DefaultConfiguration(maxReplicationLag) ==
    [isNil |-> FALSE, MaxReplicationLagSec |-> maxReplicationLag,
     MinRate |-> DefaultMinRate, verifies |-> TRUE]

\* a new throttler object, as throttler.NewThrottler returns it
NewThrottler(threadCount, maxRate, maxReplicationLag) ==
    [threadCount |-> threadCount,
     maxRate |-> maxRate,
     maxReplicationLag |-> maxReplicationLag,
     configuration |-> DefaultConfiguration(maxReplicationLag),
     configured |-> FALSE,
     copyZeroValues |-> FALSE,
     closeCalls |-> 0,
     lagRecords |-> {},
     samples |-> {},
     rateBeforeLagIncrease |-> maxRate]

\* ThrottlerInterface.UpdateConfiguration, when it succeeds: with
\* copyZeroValues the new parameters replace the old ones, without it the
\* zero fields of the new parameters are ignored
UpdateConfiguration(thr, configuration, copyZeroValues) ==
    [thr EXCEPT
        !.configured = TRUE,
        !.copyZeroValues = copyZeroValues,
        !.configuration =
            IF copyZeroValues
            THEN configuration
            ELSE [@ EXCEPT
                    !.MaxReplicationLagSec =
                        IF configuration.MaxReplicationLagSec = 0
                        THEN @ ELSE configuration.MaxReplicationLagSec,
                    !.MinRate =
                        IF configuration.MinRate = 0
                        THEN @ ELSE configuration.MinRate]]

\* ThrottlerInterface.SetMaxRate
SetMaxRate(thr, rate) == [thr EXCEPT !.maxRate = rate]

\* ThrottlerInterface.RecordReplicationLag: the sample becomes the most
\* recent one of its tablet
RecordReplicationLag(thr, th) ==
    [thr EXCEPT
        !.lagRecords = @ \cup {th},
        !.samples = {s \in @ : s.Uid # th.Uid}
                        \cup {[Uid |-> th.Uid, Lag |-> th.Lag, age |-> 0]}]

\* the samples an evaluation tick keeps: those within the staleness window
Retained(thr) ==
    {s \in {[r EXCEPT !.age = @ + 1] : r \in thr.samples} :
        s.age <= StalenessWindow}

\* the retained samples the tick computes with: a negative lag is dropped
Usable(thr) == {s \in Retained(thr) : s.Lag >= 0}

\* the aggregate lag: the maximum over the usable samples
AggregateLag(thr) ==
    CHOOSE l \in {s.Lag : s \in Usable(thr)} :
        \A s \in Usable(thr) : s.Lag <= l

\* every usable sample reports a lag above the target
AllAbove(thr) ==
    /\ Usable(thr) # {}
    /\ \A s \in Usable(thr) : s.Lag > thr.configuration.MaxReplicationLagSec

\* the rate of a tick that takes silence for health
NextRate_HealthFromSilence(thr) ==
    LET floor  == thr.configuration.MinRate
        maxLag == thr.configuration.MaxReplicationLagSec
    IN  IF Usable(thr) = {}
        THEN IF thr.maxRate >= RateCeiling
             THEN thr.maxRate
             ELSE Min(thr.maxRate + IncreaseStep, RateCeiling)
        ELSE IF AggregateLag(thr) > HighWaterLag
        THEN floor
        ELSE IF AggregateLag(thr) > maxLag
        THEN Max(floor, thr.maxRate \div DecreaseFactor)
        ELSE IF AggregateLag(thr) < maxLag
        THEN IF thr.maxRate >= RateCeiling
             THEN thr.maxRate
             ELSE Min(thr.maxRate + IncreaseStep, RateCeiling)
        ELSE thr.maxRate

\* the rate of a tick that decreases at the target already
NextRate_NonStrict(thr) ==
    LET floor  == thr.configuration.MinRate
        maxLag == thr.configuration.MaxReplicationLagSec
    IN  IF Usable(thr) = {}
        THEN thr.maxRate
        ELSE IF AggregateLag(thr) > HighWaterLag
        THEN floor
        ELSE IF AggregateLag(thr) >= maxLag
        THEN Max(floor, thr.maxRate \div DecreaseFactor)
        ELSE IF AggregateLag(thr) < maxLag
        THEN IF thr.maxRate >= RateCeiling
             THEN thr.maxRate
             ELSE Min(thr.maxRate + IncreaseStep, RateCeiling)
        ELSE thr.maxRate

\* the rate of a tick that knows no floor
NextRate_NoFloor(thr) ==
    LET floor  == thr.configuration.MinRate
        maxLag == thr.configuration.MaxReplicationLagSec
    IN  IF Usable(thr) = {}
        THEN thr.maxRate
        ELSE IF AggregateLag(thr) > HighWaterLag
        THEN 0
        ELSE IF AggregateLag(thr) > maxLag
        THEN thr.maxRate \div DecreaseFactor
        ELSE IF AggregateLag(thr) < maxLag
        THEN IF thr.maxRate >= RateCeiling
             THEN thr.maxRate
             ELSE Min(thr.maxRate + IncreaseStep, RateCeiling)
        ELSE thr.maxRate

\* the rate of a tick that keeps the rate when the lag is above the target
NextRate_NoDecrease(thr) ==
    LET floor  == thr.configuration.MinRate
        maxLag == thr.configuration.MaxReplicationLagSec
    IN  IF Usable(thr) = {}
        THEN thr.maxRate
        ELSE IF AggregateLag(thr) > HighWaterLag
        THEN thr.maxRate
        ELSE IF AggregateLag(thr) > maxLag
        THEN thr.maxRate
        ELSE IF AggregateLag(thr) < maxLag
        THEN IF thr.maxRate >= RateCeiling
             THEN thr.maxRate
             ELSE Min(thr.maxRate + IncreaseStep, RateCeiling)
        ELSE thr.maxRate

\* the rate an evaluation tick installs: untouched without usable samples,
\* the floor above the high-water mark, decreased multiplicatively above the
\* target, increased additively up to the ceiling below it
NextRate(thr) ==
    LET floor  == thr.configuration.MinRate
        maxLag == thr.configuration.MaxReplicationLagSec
    IN  IF Usable(thr) = {}
        THEN thr.maxRate
        ELSE IF AggregateLag(thr) > HighWaterLag
        THEN floor
        ELSE IF AggregateLag(thr) > maxLag
        THEN Max(floor, thr.maxRate \div DecreaseFactor)
        ELSE IF AggregateLag(thr) < maxLag
        THEN IF thr.maxRate >= RateCeiling
             THEN thr.maxRate
             ELSE Min(thr.maxRate + IncreaseStep, RateCeiling)
        ELSE thr.maxRate

\* the aggregate lag is above the target
LagAbove(thr) ==
    /\ Usable(thr) # {}
    /\ AggregateLag(thr) > thr.configuration.MaxReplicationLagSec

\* one evaluation tick of the controller: it discards the stale samples and
\* pushes the new rate into the core; rateBeforeLagIncrease remembers the
\* rate installed by the last tick at which the aggregate lag was not above
\* the target
EvaluationTick(thr) ==
    [SetMaxRate(thr, NextRate(thr)) EXCEPT
        !.samples = Retained(thr),
        !.rateBeforeLagIncrease =
            IF LagAbove(thr) THEN @ ELSE NextRate(thr)]

\* ThrottlerInterface.Throttle: the durations the core may return at the
\* given max rate, whatever the clock says
CoreThrottle(maxRate) ==
    IF maxRate = MaxRateModuleDisabled
    THEN {0}
    ELSE IF maxRate = 0
    THEN CoreWaits \ {0}
    ELSE CoreWaits

\* throttlerFactory that passes maxRate and maxReplicationLag in each
\* other's place
throttlerFactory_SwappedArgs(h, threadCount, maxRate, maxReplicationLag) ==
    [h EXCEPT !.throttlers =
        Append(@, NewThrottler(threadCount, maxReplicationLag, maxRate))]

\* throttlerFactory, when it succeeds: a new throttler object
throttlerFactory(h, threadCount, maxRate, maxReplicationLag) ==
    [h EXCEPT !.throttlers =
        Append(@, NewThrottler(threadCount, maxRate, maxReplicationLag))]

\* healthCheckFactory: a new health check, not yet subscribed to
healthCheckFactory(h, cell, cellsToWatch) ==
    [h EXCEPT !.healthChecks =
        Append(@, [cell |-> cell,
                   cellsToWatch |-> cellsToWatch,
                   subscribers |-> 0,
                   closeCalls |-> 0,
                   ch |-> << >>])]

\* topologyWatcherFactory that takes the keyspace for the cell and the cell
\* for the keyspace
topologyWatcherFactory_KeyspaceForCell(hc, cell, keyspace, shard) ==
    [hc |-> hc, cell |-> keyspace, keyspace |-> cell, shard |-> shard,
     startCalls |-> 0, stopCalls |-> 0]

\* topologyWatcherFactory: a new watcher
topologyWatcherFactory(hc, cell, keyspace, shard) ==
    [hc |-> hc, cell |-> cell, keyspace |-> keyspace, shard |-> shard,
     startCalls |-> 0, stopCalls |-> 0]

\* createTxThrottlerHealthCheck that neither subscribes nor spawns the consumer
createTxThrottlerHealthCheck_NoConsumer(h, cfg, result, cell) ==
    LET h1 == healthCheckFactory(h, cell, cfg.healthCheckCells)
        hc == Len(h1.healthChecks)
    IN  [h1 EXCEPT
            !.stateObjs[result].healthCheck = hc]

\* createTxThrottlerHealthCheck: fills result.stopHealthCheck and
\* result.healthCheck, subscribes and spawns the consumer goroutine
createTxThrottlerHealthCheck(h, cfg, result, cell) ==
    LET h1 == healthCheckFactory(h, cell, cfg.healthCheckCells)
        hc == Len(h1.healthChecks)
        co == Len(h1.consumers) + 1
    IN  [h1 EXCEPT
            !.stateObjs[result].stopHealthCheck = co,
            !.stateObjs[result].healthCheck = hc,
            !.healthChecks[hc].subscribers = @ + 1,
            !.consumers = Append(@, [pc |-> "select", ctxDone |-> FALSE,
                                      hc |-> hc, ts |-> result])]

\* the trace of a successful newTxThrottlerState
OpenTrace(h, cfg) ==
    << Ev("throttlerFactory", Len(h.throttlers) + 1),
       Ev("UpdateConfiguration", Len(h.throttlers) + 1),
       Ev("healthCheckFactory", Len(h.healthChecks) + 1),
       Ev("Subscribe", Len(h.healthChecks) + 1),
       Ev("go", Len(h.consumers) + 1) >>
    \o [i \in 1..Len(cfg.healthCheckCells) |->
            Ev("topologyWatcherFactory", Len(h.watchers) + i)]

\* newTxThrottlerState that forgets to close the throttler whose
\* UpdateConfiguration failed
newTxThrottlerState_NoCloseOnError(h, cfg, keyspace, shard, cell, factoryErr, updateErr) ==
    IF factoryErr
    THEN [err |-> TRUE, ts |-> 0, heap |-> h,
          trace |-> << Ev("throttlerFactory", 0) >>]
    ELSE
    LET h1 == throttlerFactory(h, 1, MaxRateModuleDisabled,
                               cfg.throttlerConfig.MaxReplicationLagSec)
        t  == Len(h1.throttlers)
    IN
    IF updateErr
    THEN [err |-> TRUE, ts |-> 0, heap |-> h1,
          trace |-> << Ev("throttlerFactory", t),
                       Ev("UpdateConfiguration", t) >>]
    ELSE
    LET h2 == [h1 EXCEPT
                  !.throttlers[t] =
                      UpdateConfiguration(@, cfg.throttlerConfig, TRUE),
                  !.stateObjs = Append(@, [throttler |-> t,
                                           stopHealthCheck |-> 0,
                                           healthCheck |-> 0,
                                           topologyWatchers |-> << >>])]
        result == Len(h2.stateObjs)
        h3 == createTxThrottlerHealthCheck(h2, cfg, result, cell)
        n  == Len(cfg.healthCheckCells)
        base == Len(h3.watchers)
        h4 == [h3 EXCEPT
                  !.watchers = @ \o
                      [i \in 1..n |->
                          topologyWatcherFactory(
                              h3.stateObjs[result].healthCheck,
                              cfg.healthCheckCells[i], keyspace, shard)],
                  !.stateObjs[result].topologyWatchers =
                      [i \in 1..n |-> base + i]]
    IN  [err |-> FALSE, ts |-> result, heap |-> h4,
         trace |-> OpenTrace(h, cfg)]

\* newTxThrottlerState that takes the throttler of the previous interval,
\* when there is one, instead of asking the factory for a new one
newTxThrottlerState_ReuseThrottler(h, cfg, keyspace, shard, cell, factoryErr, updateErr) ==
    IF factoryErr
    THEN [err |-> TRUE, ts |-> 0, heap |-> h,
          trace |-> << Ev("throttlerFactory", 0) >>]
    ELSE
    LET h1 == IF Len(h.throttlers) > 0 THEN h
              ELSE throttlerFactory(h, 1, MaxRateModuleDisabled,
                                    cfg.throttlerConfig.MaxReplicationLagSec)
        t  == Len(h1.throttlers)
    IN
    IF updateErr
    THEN [err |-> TRUE, ts |-> 0,
          heap |-> [h1 EXCEPT !.throttlers[t].closeCalls = @ + 1],
          trace |-> << Ev("throttlerFactory", t),
                       Ev("UpdateConfiguration", t),
                       Ev("throttler.Close", t) >>]
    ELSE
    LET h2 == [h1 EXCEPT
                  !.throttlers[t] =
                      UpdateConfiguration(@, cfg.throttlerConfig, TRUE),
                  !.stateObjs = Append(@, [throttler |-> t,
                                           stopHealthCheck |-> 0,
                                           healthCheck |-> 0,
                                           topologyWatchers |-> << >>])]
        result == Len(h2.stateObjs)
        h3 == createTxThrottlerHealthCheck(h2, cfg, result, cell)
        n  == Len(cfg.healthCheckCells)
        base == Len(h3.watchers)
        h4 == [h3 EXCEPT
                  !.watchers = @ \o
                      [i \in 1..n |->
                          topologyWatcherFactory(
                              h3.stateObjs[result].healthCheck,
                              cfg.healthCheckCells[i], keyspace, shard)],
                  !.stateObjs[result].topologyWatchers =
                      [i \in 1..n |-> base + i]]
    IN  [err |-> FALSE, ts |-> result, heap |-> h4,
         trace |-> OpenTrace(h, cfg)]

\* newTxThrottlerState that creates the health check and its consumer before
\* it configures the throttler
newTxThrottlerState_HealthCheckFirst(h, cfg, keyspace, shard, cell, factoryErr, updateErr) ==
    IF factoryErr
    THEN [err |-> TRUE, ts |-> 0, heap |-> h,
          trace |-> << Ev("throttlerFactory", 0) >>]
    ELSE
    LET h1 == throttlerFactory(h, 1, MaxRateModuleDisabled,
                               cfg.throttlerConfig.MaxReplicationLagSec)
        t  == Len(h1.throttlers)
        h2 == [h1 EXCEPT
                  !.stateObjs = Append(@, [throttler |-> t,
                                           stopHealthCheck |-> 0,
                                           healthCheck |-> 0,
                                           topologyWatchers |-> << >>])]
        result == Len(h2.stateObjs)
        h3 == createTxThrottlerHealthCheck(h2, cfg, result, cell)
        early == << Ev("throttlerFactory", t),
                    Ev("healthCheckFactory", Len(h3.healthChecks)),
                    Ev("Subscribe", Len(h3.healthChecks)),
                    Ev("go", Len(h3.consumers)),
                    Ev("UpdateConfiguration", t) >>
    IN
    IF updateErr
    THEN [err |-> TRUE, ts |-> 0,
          heap |-> [h3 EXCEPT !.throttlers[t].closeCalls = @ + 1],
          trace |-> early \o << Ev("throttler.Close", t) >>]
    ELSE
    LET n  == Len(cfg.healthCheckCells)
        base == Len(h3.watchers)
        h4 == [h3 EXCEPT
                  !.throttlers[t] =
                      UpdateConfiguration(@, cfg.throttlerConfig, TRUE),
                  !.watchers = @ \o
                      [i \in 1..n |->
                          topologyWatcherFactory(
                              h3.stateObjs[result].healthCheck,
                              cfg.healthCheckCells[i], keyspace, shard)],
                  !.stateObjs[result].topologyWatchers =
                      [i \in 1..n |-> base + i]]
    IN  [err |-> FALSE, ts |-> result, heap |-> h4,
         trace |-> early \o
                   [i \in 1..n |-> Ev("topologyWatcherFactory", base + i)]]

\* newTxThrottlerState; factoryErr and updateErr say whether throttlerFactory
\* and UpdateConfiguration return an error
newTxThrottlerState(h, cfg, keyspace, shard, cell, factoryErr, updateErr) ==
    IF factoryErr
    THEN [err |-> TRUE, ts |-> 0, heap |-> h,
          trace |-> << Ev("throttlerFactory", 0) >>]
    ELSE
    LET h1 == throttlerFactory(h, 1, MaxRateModuleDisabled,
                               cfg.throttlerConfig.MaxReplicationLagSec)
        t  == Len(h1.throttlers)
    IN
    IF updateErr
    THEN [err |-> TRUE, ts |-> 0,
          heap |-> [h1 EXCEPT !.throttlers[t].closeCalls = @ + 1],
          trace |-> << Ev("throttlerFactory", t),
                       Ev("UpdateConfiguration", t),
                       Ev("throttler.Close", t) >>]
    ELSE
    LET h2 == [h1 EXCEPT
                  !.throttlers[t] =
                      UpdateConfiguration(@, cfg.throttlerConfig, TRUE),
                  !.stateObjs = Append(@, [throttler |-> t,
                                           stopHealthCheck |-> 0,
                                           healthCheck |-> 0,
                                           topologyWatchers |-> << >>])]
        result == Len(h2.stateObjs)
        h3 == createTxThrottlerHealthCheck(h2, cfg, result, cell)
        n  == Len(cfg.healthCheckCells)
        base == Len(h3.watchers)
        h4 == [h3 EXCEPT
                  !.watchers = @ \o
                      [i \in 1..n |->
                          topologyWatcherFactory(
                              h3.stateObjs[result].healthCheck,
                              cfg.healthCheckCells[i], keyspace, shard)],
                  !.stateObjs[result].topologyWatchers =
                      [i \in 1..n |-> base + i]]
    IN  [err |-> FALSE, ts |-> result, heap |-> h4,
         trace |-> OpenTrace(h, cfg)]

\* the references held by a sequence of references
Refs(seq) == {seq[i] : i \in DOMAIN seq}

\* deallocateResources that stops only the first watcher
deallocateResources_StopFirstOnly(h, ts) ==
    LET so == h.stateObjs[ts]
        ws == IF Len(so.topologyWatchers) = 0 THEN {}
              ELSE {so.topologyWatchers[1]}
    IN  [h EXCEPT
            !.watchers = [w \in DOMAIN h.watchers |->
                            IF w \in ws
                            THEN [h.watchers[w] EXCEPT !.stopCalls = @ + 1]
                            ELSE h.watchers[w]],
            !.stateObjs[ts].topologyWatchers = << >>,
            !.healthChecks[so.healthCheck].closeCalls = @ + 1,
            !.stateObjs[ts].healthCheck = 0,
            !.throttlers[so.throttler].closeCalls = @ + 1,
            !.stateObjs[ts].throttler = 0]

\* deallocateResources that drops the health check without closing it
deallocateResources_NoHealthCheckClose(h, ts) ==
    LET so == h.stateObjs[ts]
        ws == Refs(so.topologyWatchers)
    IN  [h EXCEPT
            !.watchers = [w \in DOMAIN h.watchers |->
                            IF w \in ws
                            THEN [h.watchers[w] EXCEPT !.stopCalls = @ + 1]
                            ELSE h.watchers[w]],
            !.stateObjs[ts].topologyWatchers = << >>,
            !.stateObjs[ts].healthCheck = 0,
            !.throttlers[so.throttler].closeCalls = @ + 1,
            !.stateObjs[ts].throttler = 0]

\* txThrottlerState.deallocateResources
deallocateResources(h, ts) ==
    LET so == h.stateObjs[ts]
        ws == Refs(so.topologyWatchers)
    IN  [h EXCEPT
            !.watchers = [w \in DOMAIN h.watchers |->
                            IF w \in ws
                            THEN [h.watchers[w] EXCEPT !.stopCalls = @ + 1]
                            ELSE h.watchers[w]],
            !.stateObjs[ts].topologyWatchers = << >>,
            !.healthChecks[so.healthCheck].closeCalls = @ + 1,
            !.stateObjs[ts].healthCheck = 0,
            !.throttlers[so.throttler].closeCalls = @ + 1,
            !.stateObjs[ts].throttler = 0]

\* the trace of deallocateResources
CloseTrace(h, ts) ==
    LET so == h.stateObjs[ts]
    IN  [i \in 1..Len(so.topologyWatchers) |->
            Ev("watcher.Stop", so.topologyWatchers[i])]
        \o << Ev("healthCheck.Close", so.healthCheck),
              Ev("throttler.Close", so.throttler) >>

\* throttle that denies on every wait, a zero one included
throttle_DenyOnZero(h, ts, wait) ==
    IF h.stateObjs[ts].throttler = 0
    THEN [Call("Throttle", "panic") EXCEPT
            !.trace = << >>]
    ELSE [Call("Throttle", "return") EXCEPT
            !.result = (wait >= 0),
            !.threadId = 0,
            !.wait = wait,
            !.trace = << Ev("throttler.Throttle", h.stateObjs[ts].throttler) >>]

\* txThrottlerState.throttle: wait is the duration Throttle(0) returns
throttle(h, ts, wait) ==
    IF h.stateObjs[ts].throttler = 0
    THEN [Call("Throttle", "panic") EXCEPT
            !.trace = << >>]
    ELSE [Call("Throttle", "return") EXCEPT
            !.result = (wait > 0),
            !.threadId = 0,
            !.wait = wait,
            !.trace = << Ev("throttler.Throttle", h.stateObjs[ts].throttler) >>]

\* StatsUpdate that forwards the events of every tablet type
StatsUpdate_NoRoleFilter(h, ts, tabletStats) ==
    IF h.stateObjs[ts].throttler = 0
    THEN [panic |-> TRUE, heap |-> h]
    ELSE [panic |-> FALSE,
          heap |-> [h EXCEPT
                      !.throttlers[h.stateObjs[ts].throttler] =
                          RecordReplicationLag(@, tabletStats)]]

\* StatsUpdate that closes the core itself when a replica lags
StatsUpdate_SetsMaxRate(h, ts, tabletStats) ==
    IF tabletStats.TabletType # "REPLICA"
    THEN [panic |-> FALSE, heap |-> h]
    ELSE IF h.stateObjs[ts].throttler = 0
    THEN [panic |-> TRUE, heap |-> h]
    ELSE [panic |-> FALSE,
          heap |-> [h EXCEPT
                      !.throttlers[h.stateObjs[ts].throttler] =
                          IF tabletStats.Lag > @.maxReplicationLag
                          THEN SetMaxRate(RecordReplicationLag(@, tabletStats), 0)
                          ELSE RecordReplicationLag(@, tabletStats)]]

\* txThrottlerState.StatsUpdate
StatsUpdate(h, ts, tabletStats) ==
    IF tabletStats.TabletType # "REPLICA"
    THEN [panic |-> FALSE, heap |-> h]
    ELSE IF h.stateObjs[ts].throttler = 0
    THEN [panic |-> TRUE, heap |-> h]
    ELSE [panic |-> FALSE,
          heap |-> [h EXCEPT
                      !.throttlers[h.stateObjs[ts].throttler] =
                          RecordReplicationLag(@, tabletStats)]]

SetHeap(h) ==
    /\ stateObjs' = h.stateObjs
    /\ throttlers' = h.throttlers
    /\ healthChecks' = h.healthChecks
    /\ consumers' = h.consumers
    /\ watchers' = h.watchers

heapVars == <<stateObjs, throttlers, healthChecks, consumers, watchers>>

----------------------------------------------------------------------------
(* The facade *)

\* the target that keeps the caller's object instead of cloning it
StoredTarget_NoClone(tg) == [value |-> tg, aliased |-> TRUE]

\* the target InitDBConfig stores: proto.Clone gives the throttler an object
\* of its own, which holds what the caller's object holds
StoredTarget(tg) == [value |-> tg, aliased |-> FALSE]

\* InitDBConfig that also makes the cell of the target the one cell to watch
InitDBConfig_StoresCell(tg) ==
    /\ callerTarget' = tg
    /\ target' = StoredTarget(tg).value
    /\ aliased' = IF StoredTarget(tg).aliased
                  THEN aliased \cup {"target"}
                  ELSE aliased \ {"target"}
    /\ config' = [config EXCEPT !.healthCheckCells = << tg.Cell >>]
    /\ lastCall' = Call("InitDBConfig", "return")
    /\ UNCHANGED <<concVars, tabletConfig, state, heapVars, delivered>>

\* InitDBConfig that hands the new keyspace and shard to the watchers of the
\* open interval
InitDBConfig_RetargetsWatchers(tg) ==
    /\ callerTarget' = tg
    /\ target' = StoredTarget(tg).value
    /\ aliased' = IF StoredTarget(tg).aliased
                  THEN aliased \cup {"target"}
                  ELSE aliased \ {"target"}
    /\ watchers' =
          [w \in DOMAIN watchers |->
              IF state # 0 /\ w \in Refs(stateObjs[state].topologyWatchers)
              THEN [watchers[w] EXCEPT
                      !.keyspace = tg.Keyspace, !.shard = tg.Shard]
              ELSE watchers[w]]
    /\ lastCall' = Call("InitDBConfig", "return")
    /\ UNCHANGED <<concVars, tabletConfig, config, state, stateObjs,
                   throttlers, healthChecks, consumers, delivered>>

\* TxThrottler.InitDBConfig
InitDBConfig(tg) ==
    /\ callerTarget' = tg
    /\ target' = StoredTarget(tg).value
    /\ aliased' = IF StoredTarget(tg).aliased
                  THEN aliased \cup {"target"}
                  ELSE aliased \ {"target"}
    /\ lastCall' = Call("InitDBConfig", "return")
    /\ UNCHANGED <<concVars, tabletConfig, config, state, heapVars, delivered>>

\* Open that does not test whether the throttler is open already
OpenResult_NoOpenCheck(cfg, st, tg, h, factoryErr, updateErr) ==
    IF ~cfg.enabled
    THEN [call |-> Call("Open", "return"), state |-> st, heap |-> h]
    ELSE IF tg.isNil
    THEN [call |-> Call("Open", "panic"), state |-> st, heap |-> h]
    ELSE
    LET r == newTxThrottlerState(h, cfg, tg.Keyspace, tg.Shard, tg.Cell,
                                 factoryErr, updateErr)
    IN  [call |-> [Call("Open", "return") EXCEPT
                      !.err = r.err, !.trace = r.trace],
         state |-> r.ts, heap |-> r.heap]

\* Open that does not test config.enabled
OpenResult_NoEnabledCheck(cfg, st, tg, h, factoryErr, updateErr) ==
    IF st # 0
    THEN [call |-> Call("Open", "return"), state |-> st, heap |-> h]
    ELSE IF tg.isNil
    THEN [call |-> Call("Open", "panic"), state |-> st, heap |-> h]
    ELSE
    LET r == newTxThrottlerState(h, cfg, tg.Keyspace, tg.Shard, tg.Cell,
                                 factoryErr, updateErr)
    IN  [call |-> [Call("Open", "return") EXCEPT
                      !.err = r.err, !.trace = r.trace],
         state |-> r.ts, heap |-> r.heap]

\* Open that stores an empty state when the construction has failed
OpenResult_KeepsFailedState(cfg, st, tg, h, factoryErr, updateErr) ==
    IF ~cfg.enabled
    THEN [call |-> Call("Open", "return"), state |-> st, heap |-> h]
    ELSE IF st # 0
    THEN [call |-> Call("Open", "return"), state |-> st, heap |-> h]
    ELSE IF tg.isNil
    THEN [call |-> Call("Open", "panic"), state |-> st, heap |-> h]
    ELSE
    LET r == newTxThrottlerState(h, cfg, tg.Keyspace, tg.Shard, tg.Cell,
                                 factoryErr, updateErr)
        failed == [r.heap EXCEPT
                      !.stateObjs = Append(@, [throttler |-> 0,
                                               stopHealthCheck |-> 0,
                                               healthCheck |-> 0,
                                               topologyWatchers |-> << >>])]
    IN  IF r.err
        THEN [call |-> [Call("Open", "return") EXCEPT
                          !.err = r.err, !.trace = r.trace],
              state |-> Len(failed.stateObjs), heap |-> failed]
        ELSE [call |-> [Call("Open", "return") EXCEPT
                          !.err = r.err, !.trace = r.trace],
              state |-> r.ts, heap |-> r.heap]

\* Open that reads the target through its nil-safe getters
OpenResult_NilSafeTarget(cfg, st, tg, h, factoryErr, updateErr) ==
    IF ~cfg.enabled
    THEN [call |-> Call("Open", "return"), state |-> st, heap |-> h]
    ELSE IF st # 0
    THEN [call |-> Call("Open", "return"), state |-> st, heap |-> h]
    ELSE
    LET r == newTxThrottlerState(h, cfg, tg.Keyspace, tg.Shard, tg.Cell,
                                 factoryErr, updateErr)
    IN  [call |-> [Call("Open", "return") EXCEPT
                      !.err = r.err, !.trace = r.trace],
         state |-> r.ts, heap |-> r.heap]

\* TxThrottler.Open: what it returns and leaves behind
OpenResult(cfg, st, tg, h, factoryErr, updateErr) ==
    IF ~cfg.enabled
    THEN [call |-> Call("Open", "return"), state |-> st, heap |-> h]
    ELSE IF st # 0
    THEN [call |-> Call("Open", "return"), state |-> st, heap |-> h]
    ELSE IF tg.isNil
    THEN [call |-> Call("Open", "panic"), state |-> st, heap |-> h]
    ELSE
    LET r == newTxThrottlerState(h, cfg, tg.Keyspace, tg.Shard, tg.Cell,
                                 factoryErr, updateErr)
    IN  [call |-> [Call("Open", "return") EXCEPT
                      !.err = r.err, !.trace = r.trace],
         state |-> r.ts, heap |-> r.heap]

\* one call of Open, with the outcomes of the factories it may invoke
OpenWith(factoryErr, updateErr) ==
    LET r == OpenResult(config, state, target, Heap, factoryErr, updateErr)
    IN  /\ Len(throttlers) < MaxOpens \/ ~config.enabled \/ state # 0
        /\ state' = r.state
        /\ SetHeap(r.heap)
        /\ lastCall' = r.call
        /\ UNCHANGED <<concVars, callerVars, tabletConfig, config, target, delivered>>

TxThrottlerOpen ==
    \E factoryErr \in BOOLEAN, updateErr \in BOOLEAN :
        OpenWith(factoryErr, updateErr)

\* Close that does not test whether the throttler is closed already and so
\* dereferences the nil state
CloseResult_NoNilCheck(cfg, st, h) ==
    IF ~cfg.enabled
    THEN [call |-> Call("Close", "return"), state |-> st, heap |-> h]
    ELSE IF st = 0
    THEN [call |-> Call("Close", "panic"), state |-> st, heap |-> h]
    ELSE [call |-> [Call("Close", "return") EXCEPT
                      !.trace = CloseTrace(h, st)],
          state |-> 0, heap |-> deallocateResources(h, st)]

\* Close that releases the resources and keeps the state
CloseResult_KeepState(cfg, st, h) ==
    IF ~cfg.enabled
    THEN [call |-> Call("Close", "return"), state |-> st, heap |-> h]
    ELSE IF st = 0
    THEN [call |-> Call("Close", "return"), state |-> st, heap |-> h]
    ELSE [call |-> [Call("Close", "return") EXCEPT
                      !.trace = CloseTrace(h, st)],
          state |-> st, heap |-> deallocateResources(h, st)]

\* TxThrottler.Close: what it leaves behind
CloseResult(cfg, st, h) ==
    IF ~cfg.enabled
    THEN [call |-> Call("Close", "return"), state |-> st, heap |-> h]
    ELSE IF st = 0
    THEN [call |-> Call("Close", "return"), state |-> st, heap |-> h]
    ELSE [call |-> [Call("Close", "return") EXCEPT
                      !.trace = CloseTrace(h, st)],
          state |-> 0, heap |-> deallocateResources(h, st)]

TxThrottlerClose ==
    LET r == CloseResult(config, state, Heap)
    IN  /\ state' = r.state
        /\ SetHeap(r.heap)
        /\ lastCall' = r.call
        /\ UNCHANGED <<concVars, callerVars, tabletConfig, config, target, delivered>>

\* Throttle that does not test config.enabled
ThrottleResult_NoEnabledCheck(cfg, st, h, wait) ==
    IF st = 0
    THEN Call("Throttle", "panic")
    ELSE throttle(h, st, wait)

\* Throttle that admits on a closed throttler
ThrottleResult_AdmitWhenClosed(cfg, st, h, wait) ==
    IF ~cfg.enabled
    THEN Call("Throttle", "return")
    ELSE IF st = 0
    THEN Call("Throttle", "return")
    ELSE throttle(h, st, wait)

\* TxThrottler.Throttle: its verdict, or the panic
ThrottleResult(cfg, st, h, wait) ==
    IF ~cfg.enabled
    THEN Call("Throttle", "return")
    ELSE IF st = 0
    THEN Call("Throttle", "panic")
    ELSE throttle(h, st, wait)

\* the max rate of the core a Throttle() on the given state reaches; the
\* sentinel when it reaches none
OpenMaxRate(st, h) ==
    IF st # 0 /\ h.stateObjs[st].throttler # 0
    THEN h.throttlers[h.stateObjs[st].throttler].maxRate
    ELSE MaxRateModuleDisabled

TxThrottlerThrottle ==
    \E wait \in CoreThrottle(OpenMaxRate(state, Heap)) :
        /\ lastCall' = ThrottleResult(config, state, Heap, wait)
        /\ UNCHANGED <<concVars, callerVars, tabletConfig, config, state, target, heapVars, delivered>>

----------------------------------------------------------------------------
(* The background side *)

\* the health stream delivers an event to the subscriber of an open health
\* check, unless it has delivered the given number of events already
Broadcast(limit, events) ==
    \E hc \in DOMAIN healthChecks, th \in events :
        /\ healthChecks[hc].closeCalls = 0
        /\ healthChecks[hc].subscribers > 0
        /\ Len(healthChecks[hc].ch) < ChanCap
        /\ delivered < limit
        /\ delivered' = delivered + 1
        /\ healthChecks' = [healthChecks EXCEPT ![hc].ch = Append(@, th)]
        /\ UNCHANGED <<concVars, callerVars, tabletConfig, config, state, target, stateObjs, throttlers,
                       consumers, watchers, lastCall>>

HealthCheckBroadcast == Broadcast(MaxEvents, TabletHealths)

\* the evaluation loop of a throttler that is configured and not closed
\* runs one tick
Tick(t) ==
    /\ throttlers[t].configured
    /\ throttlers[t].closeCalls = 0
    /\ throttlers' = [throttlers EXCEPT ![t] = EvaluationTick(@)]
    /\ UNCHANGED <<concVars, callerVars, tabletConfig, config, state, target, stateObjs,
                   healthChecks, consumers, watchers, lastCall, delivered>>

ControllerTick == \E t \in DOMAIN throttlers : Tick(t)

\* the select statement of a consumer that never looks at ctx.Done()
SelectReady_NoCtxDone(h, c) ==
    IF Len(h.healthChecks[h.consumers[c].hc].ch) > 0 THEN {"ch"} ELSE {}

\* the cases of the consumer's select statement that are ready
SelectReady(h, c) ==
    (IF h.consumers[c].ctxDone THEN {"ctx.Done"} ELSE {})
    \cup (IF Len(h.healthChecks[h.consumers[c].hc].ch) > 0 THEN {"ch"} ELSE {})

\* one iteration of the consumer goroutine's loop, taking the given case
ConsumerStep(h, c, case) ==
    IF case = "ctx.Done"
    THEN [h EXCEPT !.consumers[c].pc = "done"]
    ELSE
    LET hc == h.consumers[c].hc
        th == Head(h.healthChecks[hc].ch)
        h1 == [h EXCEPT !.healthChecks[hc].ch = Tail(@)]
        r  == StatsUpdate(h1, h.consumers[c].ts, th)
    IN  IF r.panic
        THEN [r.heap EXCEPT !.consumers[c].pc = "panic"]
        ELSE r.heap

\* the consumer goroutine c runs one iteration of its loop
ConsumerRun(c) ==
    /\ c \in DOMAIN consumers
    /\ consumers[c].pc = "select"
    /\ \E case \in SelectReady(Heap, c) :
          SetHeap(ConsumerStep(Heap, c, case))
    /\ UNCHANGED <<concVars, callerVars, tabletConfig, config, state, target, lastCall, delivered>>

Consumer == \E c \in DOMAIN consumers : ConsumerRun(c)

Next ==
    \/ \E tg \in Targets : InitDBConfig(tg)
    \/ TxThrottlerOpen
    \/ TxThrottlerClose
    \/ TxThrottlerThrottle
    \/ HealthCheckBroadcast
    \/ Consumer
    \/ ControllerTick

Spec == Init /\ [][Next]_vars

----------------------------------------------------------------------------
(* The controller at work: an enabled throttler, with or without a rate     *)
(* floor, that the replicas of its shard report their lag to                *)

\* configurations that enable the throttler: the controller parameters
\* keep the default floor or set the floor to 0
CtlTabletConfigs ==
    [EnableTxThrottler : {TRUE},
     TxThrottlerConfig : {"valid", "valid-minrate-0"},
     TxThrottlerHealthCheckCells : {<<"zone1">>}]

InitCtl == InitWith(CtlTabletConfigs)

NextCtl ==
    \/ \E tg \in Targets : tg.Keyspace = "ks1" /\ InitDBConfig(tg)
    \/ TxThrottlerOpen
    \/ TxThrottlerThrottle
    \/ Broadcast(MaxSamples, ReplicaHealths)
    \/ Consumer
    \/ ControllerTick

SpecCtl == InitCtl /\ [][NextCtl]_vars

----------------------------------------------------------------------------
(* The caller changes the objects it handed to the throttler *)

\* the keyspace the caller writes into its target object after InitDBConfig
OverwrittenKeyspace == "overwritten"

\* the cell the caller writes into its cell list after NewTxThrottler
OverwrittenCell == "overwritten"

\* the caller overwrites the keyspace of the target object it gave to
\* InitDBConfig; the write shows in t.target when both are one object
CallerMutatesTarget ==
    LET tg == [callerTarget EXCEPT !.Keyspace = OverwrittenKeyspace]
    IN  /\ ~callerTarget.isNil
        /\ callerTarget.Keyspace # OverwrittenKeyspace
        /\ callerTarget' = tg
        /\ target' = IF "target" \in aliased THEN tg ELSE target
        /\ UNCHANGED <<concVars, aliased, tabletConfig, config, state,
                       heapVars, lastCall, delivered>>

\* the caller overwrites the elements of the cell list it gave to
\* NewTxThrottler; the write shows in config.healthCheckCells when both are
\* one slice
CallerMutatesCells ==
    LET cells == [i \in DOMAIN tabletConfig.TxThrottlerHealthCheckCells |->
                    OverwrittenCell]
    IN  /\ cells # tabletConfig.TxThrottlerHealthCheckCells
        /\ tabletConfig' =
              [tabletConfig EXCEPT !.TxThrottlerHealthCheckCells = cells]
        /\ config' = IF "healthCheckCells" \in aliased
                     THEN [config EXCEPT !.healthCheckCells = cells]
                     ELSE config
        /\ UNCHANGED <<concVars, callerVars, state, target, heapVars,
                       lastCall, delivered>>

NextAlias ==
    \/ \E tg \in Targets : InitDBConfig(tg)
    \/ TxThrottlerOpen
    \/ TxThrottlerClose
    \/ CallerMutatesTarget
    \/ CallerMutatesCells

SpecAlias == Init /\ [][NextAlias]_vars

----------------------------------------------------------------------------
(* The consumer goroutine and its cancellation signal *)

\* txThrottlerState.stopHealthCheck(): the cancel function of the context
\* the consumer goroutine of the state selects on
stopHealthCheck(h, ts) ==
    [h EXCEPT !.consumers[h.stateObjs[ts].stopHealthCheck].ctxDone = TRUE]

\* the cancel function of a state is invoked; no code of the throttler does
\* it, so the step belongs to this specification alone
StopHealthCheckCalled ==
    \E ts \in DOMAIN stateObjs :
        /\ ~consumers[stateObjs[ts].stopHealthCheck].ctxDone
        /\ SetHeap(stopHealthCheck(Heap, ts))
        /\ UNCHANGED <<concVars, callerVars, tabletConfig, config, state,
                       target, lastCall, delivered>>

\* configurations that enable the throttler
EnabledTabletConfigs ==
    [EnableTxThrottler : {TRUE},
     TxThrottlerConfig : {"valid"},
     TxThrottlerHealthCheckCells : {<<"zone1">>}]

InitCancel == InitWith(EnabledTabletConfigs)

NextCancel ==
    \/ \E tg \in Targets : tg.Keyspace = "ks1" /\ InitDBConfig(tg)
    \/ TxThrottlerOpen
    \/ TxThrottlerClose
    \/ HealthCheckBroadcast
    \/ \E c \in 1..MaxOpens : ConsumerRun(c)
    \/ StopHealthCheckCalled

SpecCancel == InitCancel /\ [][NextCancel]_vars

\* the scheduler runs every goroutine that can run
FairSpecCancel ==
    /\ SpecCancel
    /\ \A c \in 1..MaxOpens : WF_vars(ConsumerRun(c))

----------------------------------------------------------------------------
(* Throttle() called from several goroutines, and racing with Open() *)

\* no facade call is in progress
Quiescent ==
    /\ ~opening.active
    /\ \A i \in Callers : callers[i].pc = "idle"

\* throttleMu.Lock() that never blocks
MuFree_NoLock(mu, ts) == TRUE

\* throttleMu.Lock() of the given state can proceed: nobody holds it
MuFree(mu, ts) == \A p \in mu : p[1] # ts

\* Open() up to the return of newTxThrottlerState: the subordinates exist,
\* t.state is not assigned yet
OpenBegin ==
    \E factoryErr \in BOOLEAN, updateErr \in BOOLEAN :
        LET r == OpenResult(config, state, target, Heap, factoryErr, updateErr)
        IN  /\ ~opening.active
            /\ Len(throttlers) < MaxOpens \/ ~config.enabled \/ state # 0
            /\ SetHeap(r.heap)
            /\ opening' = [active |-> TRUE, state |-> r.state, call |-> r.call]
            /\ UNCHANGED <<callerVars, tabletConfig, config, state, target, lastCall,
                           delivered, callers, throttleMu>>

\* Open() assigns t.state and returns
OpenEnd ==
    /\ opening.active
    /\ state' = opening.state
    /\ lastCall' = opening.call
    /\ opening' = NotOpening
    /\ UNCHANGED <<callerVars, tabletConfig, config, target, heapVars, delivered,
                   callers, throttleMu>>

\* Throttle() up to throttleMu.Lock(): it reads config.enabled, t.state and
\* ts.throttler, and returns or panics at once unless the throttler is open
ThrottleCheck(i) ==
    LET r == ThrottleResult(config, state, Heap, 0)
    IN  /\ callers[i].pc = "idle"
        /\ IF ~config.enabled \/ state = 0 \/ r.outcome = "panic"
           THEN /\ lastCall' = r
                /\ UNCHANGED callers
           ELSE /\ callers' = [callers EXCEPT ![i] = [pc |-> "lock", ts |-> state]]
                /\ UNCHANGED lastCall
        /\ UNCHANGED <<callerVars, tabletConfig, config, state, target, heapVars,
                       delivered, throttleMu, opening>>

\* ts.throttleMu.Lock()
ThrottleLock(i) ==
    /\ callers[i].pc = "lock"
    /\ MuFree(throttleMu, callers[i].ts)
    /\ throttleMu' = throttleMu \cup {<<callers[i].ts, i>>}
    /\ callers' = [callers EXCEPT ![i].pc = "core"]
    /\ UNCHANGED <<callerVars, tabletConfig, config, state, target, heapVars, lastCall,
                   delivered, opening>>

\* ts.throttler.Throttle(0), the deferred Unlock() and the return
ThrottleCore(i) ==
    /\ callers[i].pc = "core"
    /\ \E wait \in CoreThrottle(OpenMaxRate(callers[i].ts, Heap)) :
          lastCall' = throttle(Heap, callers[i].ts, wait)
    /\ throttleMu' = throttleMu \ {<<callers[i].ts, i>>}
    /\ callers' = [callers EXCEPT ![i] = [pc |-> "idle", ts |-> 0]]
    /\ UNCHANGED <<callerVars, tabletConfig, config, state, target, heapVars,
                   delivered, opening>>

\* the calls that must not overlap any other call
SerialCall ==
    /\ Quiescent
    /\ \/ \E tg \in Targets : InitDBConfig(tg)
       \/ TxThrottlerClose

NextConc ==
    \/ SerialCall
    \/ OpenBegin
    \/ OpenEnd
    \/ \E i \in Callers : ThrottleCheck(i)
    \/ \E i \in Callers : ThrottleLock(i)
    \/ \E i \in Callers : ThrottleCore(i)

SpecConc == Init /\ [][NextConc]_vars

\* the scheduler runs every goroutine that can run, and sync.Mutex hands the
\* lock to a goroutine that keeps waiting for it
FairSpecConc ==
    /\ SpecConc
    /\ WF_vars(OpenEnd)
    /\ \A i \in Callers : WF_vars(ThrottleCore(i))
    /\ \A i \in Callers : SF_vars(ThrottleLock(i))

----------------------------------------------------------------------------
(* Properties *)

\* the watchers of the open interval, none when the throttler is closed
OpenWatchers ==
    IF state = 0 THEN {} ELSE Refs(stateObjs[state].topologyWatchers)

\* C1: on a throttler with enabled=false every Throttle() returns false,
\* whatever was called before, and no facade call panics.
C1_DisabledThrottleAdmits ==
    ~config.enabled =>
        /\ lastCall.outcome # "panic"
        /\ lastCall.op = "Throttle" =>
              /\ lastCall.outcome = "return"
              /\ lastCall.result = FALSE
              /\ lastCall.trace = << >>

C1_Witness ==
    /\ ~config.enabled
    /\ lastCall.op = "Throttle"
    /\ ~target.isNil

\* C2: Throttle() on an open enabled throttler calls the core's Throttle with
\* caller id 0, which is below the core's thread count, denies exactly when
\* the core's wait is positive, and leaves the throttler open.
C2_OpenThrottleDelegates ==
    [][(config.enabled /\ state # 0 /\ TxThrottlerThrottle) =>
          /\ state' = state
          /\ lastCall'.outcome = "return"
          /\ lastCall'.threadId = 0
          /\ lastCall'.threadId < throttlers[stateObjs[state].throttler].threadCount
          /\ lastCall'.trace =
                << Ev("throttler.Throttle", stateObjs[state].throttler) >>
          /\ lastCall'.result = (lastCall'.wait > 0)
          /\ lastCall'.wait \in CoreWaits]_vars

C2_Witness ==
    /\ config.enabled
    /\ state # 0
    /\ lastCall.op = "Throttle"
    /\ lastCall.wait = 0
    /\ lastCall.result = FALSE

\* C3: Throttle() on an enabled throttler that is closed panics; it gives no
\* verdict and reaches no rate limiter.
C3_ClosedThrottlePanics ==
    [][(config.enabled /\ state = 0 /\ TxThrottlerThrottle) =>
          /\ lastCall'.outcome = "panic"
          /\ lastCall'.trace = << >>
          /\ state' = 0]_vars

C3_Witness ==
    /\ config.enabled
    /\ state = 0
    /\ lastCall.op = "Throttle"
    /\ lastCall.outcome = "panic"
    /\ Len(stateObjs) > 0

\* C4: whenever the throttler is closed, every consumer task spawned by an
\* earlier Open() has been cancelled and has terminated.
C4_CloseTerminatesConsumer ==
    state = 0 =>
        \A c \in DOMAIN consumers :
            /\ consumers[c].ctxDone
            /\ consumers[c].pc # "select"

\* C5: every watcher a successful Open() created has had Start() invoked.
C5_WatchersStarted ==
    \A w \in DOMAIN watchers : watchers[w].startCalls >= 1

\* C6: Stop() has been invoked exactly once on every watcher of a closed
\* interval and not at all on the watchers of the open interval.
C6_WatchersStoppedOnce ==
    \A w \in DOMAIN watchers :
        watchers[w].stopCalls = IF w \in OpenWatchers THEN 0 ELSE 1

C6_Witness ==
    /\ state = 0
    /\ lastCall.op = "Close"
    /\ lastCall.trace = << >>
    /\ Len(watchers) >= 2

\* C7: the health check of every closed interval has been closed exactly
\* once, and the health check of the open interval has not been closed.
C7_HealthCheckClosedOnce ==
    \A hc \in DOMAIN healthChecks :
        healthChecks[hc].closeCalls =
            IF state # 0 /\ stateObjs[state].healthCheck = hc THEN 0 ELSE 1

C7_Witness ==
    /\ state = 0
    /\ lastCall.op = "Close"
    /\ lastCall.trace # << >>
    /\ Len(healthChecks) >= 1
    /\ healthChecks[Len(healthChecks)].subscribers = 1

\* C8: Open() on an open throttler returns success, invokes no factory and
\* changes neither the state nor any subordinate.
C8_OpenIdempotent ==
    [][(config.enabled /\ state # 0 /\ TxThrottlerOpen) =>
          /\ lastCall' = Call("Open", "return")
          /\ UNCHANGED <<state, heapVars>>]_vars

C8_Witness ==
    /\ config.enabled
    /\ state # 0
    /\ lastCall = Call("Open", "return")

\* C9: Close() on a closed throttler stops no watcher, closes no health check
\* and no throttler and leaves the throttler closed.
C9_CloseIdempotent ==
    [][(state = 0 /\ TxThrottlerClose) =>
          /\ lastCall' = Call("Close", "return")
          /\ UNCHANGED <<state, heapVars>>]_vars

C9_Witness ==
    /\ config.enabled
    /\ state = 0
    /\ lastCall = Call("Close", "return")
    /\ Len(stateObjs) > 0

\* C10: an Open() during which the throttler factory or UpdateConfiguration
\* fails returns the error, leaves the throttler closed, closes the throttler
\* it created, if any, and allocates no health check, consumer or watcher.
C10_FailedOpenRollsBack ==
    [][\A factoryErr \in BOOLEAN, updateErr \in BOOLEAN :
          (/\ config.enabled /\ state = 0 /\ ~target.isNil
           /\ factoryErr \/ updateErr
           /\ OpenWith(factoryErr, updateErr)) =>
              /\ lastCall'.op = "Open"
              /\ lastCall'.err
              /\ state' = 0
              /\ UNCHANGED <<stateObjs, healthChecks, consumers, watchers>>
              /\ \A t \in DOMAIN throttlers : throttlers'[t] = throttlers[t]
              /\ \A t \in DOMAIN throttlers' \ DOMAIN throttlers :
                    throttlers'[t].closeCalls = 1
              /\ factoryErr => throttlers' = throttlers]_vars

C10_Witness ==
    /\ state = 0
    /\ lastCall.op = "Open"
    /\ lastCall.err
    /\ Len(throttlers) > 0
    /\ ~throttlers[Len(throttlers)].configured
    /\ throttlers[Len(throttlers)].closeCalls = 1

\* C11: a throttler constructed with enabled=true and no observation cell is
\* a disabled one: Throttle() returns false, and Open() returns success and
\* creates no throttler, health check, consumer or watcher.
C11_EmptyCellsDisabled ==
    (tabletConfig.EnableTxThrottler
        /\ Len(tabletConfig.TxThrottlerHealthCheckCells) = 0) =>
        /\ ~config.enabled
        /\ state = 0
        /\ heapVars = << << >>, << >>, << >>, << >>, << >> >>
        /\ lastCall.op = "Throttle" =>
              lastCall.outcome = "return" /\ lastCall.result = FALSE
        /\ lastCall.op = "Open" =>
              /\ lastCall.outcome = "return"
              /\ ~lastCall.err
              /\ lastCall.trace = << >>

C11_Witness ==
    /\ tabletConfig.EnableTxThrottler
    /\ tabletConfig.TxThrottlerConfig = "valid"
    /\ Len(tabletConfig.TxThrottlerHealthCheckCells) = 0
    /\ ~target.isNil
    /\ lastCall.op = "Open"

\* C12: NewTxThrottler never fails; the throttler it returns is enabled only
\* when throttling was asked for, the controller parameters parse and verify
\* and the cell list is not empty, and it then carries the given cells.
C12_NewTxThrottlerTotal ==
    /\ lastCall.op = "NewTxThrottler" => lastCall.outcome = "return"
    /\ ~NewTxThrottlerPanics(tabletConfig)
    /\ (tabletConfig.EnableTxThrottler
          /\ tabletConfig.TxThrottlerConfig # "valid") => ~config.enabled
    /\ config.enabled =>
          /\ tabletConfig.EnableTxThrottler
          /\ tabletConfig.TxThrottlerConfig = "valid"
          /\ config.throttlerConfig.verifies
          /\ Len(config.healthCheckCells) > 0
          /\ config.healthCheckCells = tabletConfig.TxThrottlerHealthCheckCells

C12_Witness ==
    /\ tabletConfig.EnableTxThrottler
    /\ tabletConfig.TxThrottlerConfig = "unverifiable"
    /\ Len(tabletConfig.TxThrottlerHealthCheckCells) > 0
    /\ lastCall.op = "NewTxThrottler"
    /\ ~config.enabled

\* C13: on a throttler with enabled=false Open() and Close() return without
\* an error, nothing is ever allocated, the throttler stays closed and the
\* health stream delivers nothing.
C13_DisabledTouchesNothing ==
    ~config.enabled =>
        /\ state = 0
        /\ heapVars = << << >>, << >>, << >>, << >>, << >> >>
        /\ delivered = 0
        /\ lastCall.outcome = "return"
        /\ ~lastCall.err
        /\ lastCall.trace = << >>

C13_Witness ==
    /\ ~config.enabled
    /\ ~tabletConfig.EnableTxThrottler
    /\ ~target.isNil
    /\ lastCall.op = "Close"

\* C14: every event handed to RecordReplicationLag has tablet type REPLICA.
C14_OnlyReplicaRecorded ==
    \A t \in DOMAIN throttlers :
        \A th \in throttlers[t].lagRecords : th.TabletType = "REPLICA"

\* an event was delivered to the open interval and consumed, and nothing was
\* recorded: it was dropped for its tablet type
C14_Witness ==
    /\ state # 0
    /\ delivered = 1
    /\ \A hc \in DOMAIN healthChecks : healthChecks[hc].ch = << >>
    /\ \A t \in DOMAIN throttlers : throttlers[t].lagRecords = {}
    /\ \A c \in DOMAIN consumers : consumers[c].pc = "select"
    /\ Len(stateObjs) = 1

\* the keyspace and the shard the open interval was opened for
OpenKeyspace == watchers[stateObjs[state].topologyWatchers[1]].keyspace

OpenShard == watchers[stateObjs[state].topologyWatchers[1]].shard

\* C15: every event recorded by the open interval's throttler is of the
\* keyspace and shard the interval was opened for.
C15_OnlyTargetRecorded ==
    state # 0 =>
        \A th \in throttlers[stateObjs[state].throttler].lagRecords :
            th.Keyspace = OpenKeyspace /\ th.Shard = OpenShard

\* C18: when the throttler's state is not nil it is a complete open state:
\* a configured throttler that is not closed, an open health check with its
\* subscription and its running consumer, and one watcher per configured cell.
C18_NoPartialOpen ==
    state # 0 =>
        LET so == stateObjs[state]
        IN  /\ so.throttler \in DOMAIN throttlers
            /\ throttlers[so.throttler].configured
            /\ throttlers[so.throttler].closeCalls = 0
            /\ so.healthCheck \in DOMAIN healthChecks
            /\ healthChecks[so.healthCheck].closeCalls = 0
            /\ healthChecks[so.healthCheck].subscribers = 1
            /\ so.stopHealthCheck \in DOMAIN consumers
            /\ consumers[so.stopHealthCheck].pc = "select"
            /\ consumers[so.stopHealthCheck].hc = so.healthCheck
            /\ consumers[so.stopHealthCheck].ts = state
            /\ Len(so.topologyWatchers) = Len(config.healthCheckCells)
            /\ \A i \in DOMAIN so.topologyWatchers :
                  /\ so.topologyWatchers[i] \in DOMAIN watchers
                  /\ watchers[so.topologyWatchers[i]].hc = so.healthCheck
                  /\ watchers[so.topologyWatchers[i]].cell =
                        config.healthCheckCells[i]

C18_Witness ==
    /\ state # 0
    /\ Len(stateObjs[state].topologyWatchers) = 2
    /\ lastCall.op = "Throttle"

\* C19: a successful Open() of a closed throttler leaves every older object
\* as it was and builds the state from objects that did not exist before,
\* each in the condition the objects of the first interval started in.
C19_FreshSubordinates ==
    [][(config.enabled /\ state = 0 /\ state' # 0 /\ TxThrottlerOpen) =>
          LET so == stateObjs'[state']
          IN  /\ state' > Len(stateObjs)
              /\ so.throttler > Len(throttlers)
              /\ so.healthCheck > Len(healthChecks)
              /\ so.stopHealthCheck > Len(consumers)
              /\ \A w \in Refs(so.topologyWatchers) : w > Len(watchers)
              /\ \A i \in DOMAIN stateObjs : stateObjs'[i] = stateObjs[i]
              /\ \A i \in DOMAIN throttlers : throttlers'[i] = throttlers[i]
              /\ \A i \in DOMAIN healthChecks : healthChecks'[i] = healthChecks[i]
              /\ \A i \in DOMAIN consumers : consumers'[i] = consumers[i]
              /\ \A i \in DOMAIN watchers : watchers'[i] = watchers[i]
              /\ throttlers'[so.throttler] =
                    [threadCount |-> 1,
                     maxRate |-> MaxRateModuleDisabled,
                     maxReplicationLag |->
                        config.throttlerConfig.MaxReplicationLagSec,
                     configuration |-> config.throttlerConfig,
                     configured |-> TRUE,
                     copyZeroValues |-> TRUE,
                     closeCalls |-> 0,
                     lagRecords |-> {},
                     samples |-> {},
                     rateBeforeLagIncrease |-> MaxRateModuleDisabled]
              /\ healthChecks'[so.healthCheck] =
                    [cell |-> target.Cell,
                     cellsToWatch |-> config.healthCheckCells,
                     subscribers |-> 1,
                     closeCalls |-> 0,
                     ch |-> << >>]
              /\ \A i \in DOMAIN so.topologyWatchers :
                    watchers'[so.topologyWatchers[i]] =
                        [hc |-> so.healthCheck,
                         cell |-> config.healthCheckCells[i],
                         keyspace |-> target.Keyspace,
                         shard |-> target.Shard,
                         startCalls |-> 0, stopCalls |-> 0]]_vars

\* the second interval, opened after the first one was closed
C19_Witness ==
    /\ state = 2
    /\ Len(stateObjs) = 2
    /\ lastCall.op = "Open"
    /\ ~lastCall.err
    /\ lastCall.trace # << >>
    /\ Len(throttlers) = 2
    /\ throttlers[1].configured
    /\ throttlers[1].closeCalls = 1

\* C20: Close() on an open throttler returns, leaves the throttler closed and
\* has cleared the watcher list, the health check and the throttler of the
\* state it released.
C20_CloseReleasesState ==
    [][(config.enabled /\ state # 0 /\ TxThrottlerClose) =>
          /\ lastCall'.op = "Close"
          /\ lastCall'.outcome = "return"
          /\ state' = 0
          /\ stateObjs'[state].topologyWatchers = << >>
          /\ stateObjs'[state].healthCheck = 0
          /\ stateObjs'[state].throttler = 0]_vars

C20_Witness ==
    /\ state = 0
    /\ lastCall.op = "Close"
    /\ Len(lastCall.trace) = 4
    /\ stateObjs[Len(stateObjs)].throttler = 0
    /\ stateObjs[Len(stateObjs)].topologyWatchers = << >>

\* C16: at most one goroutine is inside the core's Throttle(0) at any time and
\* it is the holder of throttleMu; every goroutine that has entered Throttle()
\* on an open throttler gets through the lock and returns.
C16_ThrottleSerialized ==
    /\ [](/\ Cardinality({i \in Callers : callers[i].pc = "core"}) <= 1
          /\ \A i \in Callers :
                callers[i].pc = "core" <=> <<callers[i].ts, i>> \in throttleMu)
    /\ \A i \in Callers :
          (callers[i].pc = "lock") ~> (callers[i].pc = "idle")

\* one goroutine is in the core and the other one waits for the lock
C16_Witness ==
    /\ callers[1].pc = "core"
    /\ callers[2].pc = "lock"
    /\ callers[1].ts = callers[2].ts

\* C17 as stated: a Throttle() that runs while Open() has not completed
\* returns false.
C17_RaceAdmits ==
    [][\A i \in Callers :
          (config.enabled /\ state = 0 /\ opening.active /\ ThrottleCheck(i)) =>
              /\ lastCall'.op = "Throttle"
              /\ lastCall'.outcome = "return"
              /\ lastCall'.result = FALSE]_vars

\* C17 as amended: a Throttle() that runs while Open() has not stored the
\* state panics; one that runs after Open() has completed goes on to the core
\* of the state Open() stored and returns the core's decision.
C17_RacePanics ==
    [][\A i \in Callers :
          /\ (config.enabled /\ state = 0 /\ ThrottleCheck(i)) =>
                /\ lastCall'.op = "Throttle"
                /\ lastCall'.outcome = "panic"
                /\ callers'[i].pc = "idle"
          /\ (config.enabled /\ state # 0 /\ ThrottleCheck(i)) =>
                /\ callers'[i] = [pc |-> "lock", ts |-> state]
                /\ lastCall' = lastCall
          /\ (callers[i].pc = "core" /\ ThrottleCore(i)) =>
                /\ callers[i].ts = state
                /\ lastCall'.outcome = "return"
                /\ lastCall'.result = (lastCall'.wait > 0)
                /\ lastCall'.trace =
                      << Ev("throttler.Throttle", stateObjs[state].throttler) >>]_vars

\* Open() has built an open state and not stored it, and a Throttle() has
\* panicked meanwhile
C17_Witness ==
    /\ opening.active
    /\ opening.state # 0
    /\ state = 0
    /\ lastCall.op = "Throttle"
    /\ lastCall.outcome = "panic"

\* C21: the tear-down of Close() is leaf-first: every watcher of the interval
\* is stopped, then the fan-in is released (the consumer is cancelled and the
\* health check closed), then the throttler is closed; the throttler is never
\* closed before the fan-in is released, nor the fan-in released before every
\* watcher is stopped.
C21_LeafFirstTeardown ==
    (lastCall.op = "Close" /\ lastCall.trace # << >>) =>
        LET tr == lastCall.trace
            At(op) == {i \in DOMAIN tr : tr[i].op = op}
            FanIn == At("stopHealthCheck") \cup At("healthCheck.Close")
        IN  /\ At("throttler.Close") # {}
            /\ At("stopHealthCheck") # {}
            /\ At("healthCheck.Close") # {}
            /\ \A w \in At("watcher.Stop"), f \in FanIn : w < f
            /\ \A f \in FanIn, t \in At("throttler.Close") : f < t

\* C22: the stored target is never overwritten while the throttler is open.
C22_TargetFixedWhileOpen ==
    [][state # 0 => target' = target]_vars

\* the throttler of the open interval
OpenThrottler == throttlers[stateObjs[state].throttler]

\* C23: the max rate of every throttler is at least 0, a throttler starts
\* with the max rate the facade created it with, and the only step that
\* changes the max rate of a throttler is an evaluation tick of the
\* controller: no Open, Close, Throttle, InitDBConfig or StatsUpdate does.
C23_OnlyControllerSetsMaxRate ==
    /\ [](\A t \in DOMAIN throttlers : throttlers[t].maxRate >= 0)
    /\ [][/\ \A t \in DOMAIN throttlers' \ DOMAIN throttlers :
                throttlers'[t].maxRate = MaxRateModuleDisabled
          /\ (\E t \in DOMAIN throttlers :
                    throttlers'[t].maxRate # throttlers[t].maxRate)
                => ControllerTick]_vars

\* the controller has lowered the rate of the open throttler, and Throttle()
\* has denied since
C23_Witness ==
    /\ state # 0
    /\ OpenThrottler.maxRate < MaxRateModuleDisabled
    /\ OpenThrottler.lagRecords # {}
    /\ lastCall.op = "Throttle"
    /\ lastCall.result = TRUE

\* C24: Throttle() on an open throttler admits with a zero wait when the max
\* rate of its core is the disabled sentinel and denies with a positive wait
\* when the max rate is 0; on a throttler no lag sample was recorded on, the
\* max rate is the sentinel the facade created the core with and Throttle()
\* returns false.
C24_SentinelAdmitsZeroDenies ==
    [][(config.enabled /\ state # 0 /\ TxThrottlerThrottle) =>
          /\ OpenThrottler.maxRate = MaxRateModuleDisabled =>
                lastCall'.wait = 0 /\ lastCall'.result = FALSE
          /\ OpenThrottler.maxRate = 0 =>
                lastCall'.wait > 0 /\ lastCall'.result = TRUE
          /\ OpenThrottler.lagRecords = {} =>
                /\ OpenThrottler.maxRate = MaxRateModuleDisabled
                /\ lastCall'.outcome = "return"
                /\ lastCall'.result = FALSE]_vars

\* the floor is 0, the controller has dropped the rate to it and Throttle()
\* has denied
C24_Witness ==
    /\ state # 0
    /\ OpenThrottler.maxRate = 0
    /\ lastCall.op = "Throttle"
    /\ lastCall.wait > 0
    /\ lastCall.result = TRUE

\* C25: an evaluation tick at which no usable sample remains (every sample
\* is stale or reports a negative lag, or there is none) leaves the max rate
\* as it was.
C25_SilenceLeavesRate ==
    [][\A t \in DOMAIN throttlers :
          (Usable(throttlers[t]) = {} /\ Tick(t)) =>
              throttlers'[t].maxRate = throttlers[t].maxRate]_vars

\* the controller lowered the rate of the open throttler, and a later tick
\* discarded the stale sample and kept the rate
C25_Witness ==
    /\ state # 0
    /\ OpenThrottler.lagRecords # {}
    /\ OpenThrottler.samples = {}
    /\ OpenThrottler.maxRate < RateCeiling

\* C26: an evaluation tick lowers the max rate only when the aggregate lag,
\* the maximum over the usable samples, is strictly above the configured
\* maximum replication lag; with a single replica reporting exactly that lag
\* the rate after the tick is not below the rate before it.
C26_DecreaseOnlyAboveTarget ==
    [][\A t \in DOMAIN throttlers :
          Tick(t) =>
              /\ throttlers'[t].maxRate < throttlers[t].maxRate =>
                    /\ Usable(throttlers[t]) # {}
                    /\ AggregateLag(throttlers[t]) >
                          throttlers[t].configuration.MaxReplicationLagSec
              /\ (\E s \in Usable(throttlers[t]) :
                      /\ Usable(throttlers[t]) = {s}
                      /\ s.Lag = throttlers[t].configuration.MaxReplicationLagSec)
                    => throttlers'[t].maxRate >= throttlers[t].maxRate]_vars

\* the rate of the open throttler was lowered, and a tick has since evaluated
\* the single replica at exactly the configured lag
C26_Witness ==
    /\ state # 0
    /\ OpenThrottler.maxRate < MaxRateModuleDisabled
    /\ \E s \in OpenThrottler.samples :
          /\ OpenThrottler.samples = {s}
          /\ s.Lag = OpenThrottler.configuration.MaxReplicationLagSec
          /\ s.age >= 1

\* C27: the max rate of a configured throttler is never below the floor of
\* its configuration, so it is 0 only when the configured floor is 0.
C27_RateNotBelowFloor ==
    \A t \in DOMAIN throttlers :
        throttlers[t].configured =>
            /\ throttlers[t].maxRate >= throttlers[t].configuration.MinRate
            /\ throttlers[t].configuration.MinRate > 0 =>
                  throttlers[t].maxRate > 0

\* the controller has dropped the rate of the open throttler to its positive
\* floor and ticked again on the same sample
C27_Witness ==
    /\ state # 0
    /\ OpenThrottler.configuration.MinRate > 0
    /\ OpenThrottler.maxRate = OpenThrottler.configuration.MinRate
    /\ \E s \in OpenThrottler.samples : s.Lag > HighWaterLag /\ s.age = 2

\* C28 as stated: an evaluation tick at which every usable sample reports a
\* lag above the configured maximum installs a max rate lower than the rate
\* in force when the lag went above it.
C28_SustainedLagLowersRate ==
    [][\A t \in DOMAIN throttlers :
          (AllAbove(throttlers[t]) /\ Tick(t)) =>
              throttlers'[t].maxRate < throttlers[t].rateBeforeLagIncrease]_vars

\* C28 as amended: such a tick installs a max rate lower than the rate in
\* force when the lag went above the maximum, unless that rate was the
\* configured floor already: then the rate stays at the floor.
C28_SustainedLagLowersRateToFloor ==
    [][\A t \in DOMAIN throttlers :
          (AllAbove(throttlers[t]) /\ Tick(t)) =>
              \/ throttlers'[t].maxRate < throttlers[t].rateBeforeLagIncrease
              \/ /\ throttlers[t].rateBeforeLagIncrease =
                        throttlers[t].configuration.MinRate
                 /\ throttlers'[t].maxRate =
                        throttlers[t].configuration.MinRate]_vars

\* the rate of the open throttler was above the floor when the lag of its
\* only replica went above the maximum, and a tick has lowered it
C28_Witness ==
    /\ state # 0
    /\ OpenThrottler.maxRate < OpenThrottler.rateBeforeLagIncrease
    /\ OpenThrottler.rateBeforeLagIncrease < MaxRateModuleDisabled
    /\ \E s \in OpenThrottler.samples :
          /\ OpenThrottler.samples = {s}
          /\ s.Lag > OpenThrottler.configuration.MaxReplicationLagSec
          /\ s.age >= 1

\* C29: once the health check of an interval has been closed, its consumer
\* hands no further event to StatsUpdate, so nothing reaches the throttler
\* after its Close().
C29_NoStatsUpdateAfterClose ==
    [][\A c \in DOMAIN consumers :
          healthChecks[consumers[c].hc].closeCalls > 0 =>
              /\ consumers'[c] = consumers[c]
              /\ healthChecks'[consumers[c].hc].ch =
                    healthChecks[consumers[c].hc].ch]_vars

\* C30: an Open() of a closed throttler calls the throttler factory, then
\* UpdateConfiguration with copyZeroValues=true, then creates the health
\* check, subscribes and spawns the one consumer, then creates one watcher per
\* cell; everything after UpdateConfiguration happens only when the factory
\* and UpdateConfiguration have succeeded.
C30_ConstructionOrder ==
    [][(config.enabled /\ state = 0 /\ ~target.isNil /\ TxThrottlerOpen) =>
          LET tr == lastCall'.trace
              At(op) == {i \in DOMAIN tr : tr[i].op = op}
              Before(a, b) == \A i \in At(a), j \in At(b) : i < j
              Later == At("healthCheckFactory") \cup At("Subscribe")
                          \cup At("go") \cup At("topologyWatcherFactory")
          IN  /\ Cardinality(At("throttlerFactory")) = 1
              /\ Before("throttlerFactory", "UpdateConfiguration")
              /\ \A i \in Later :
                    \E a \in At("throttlerFactory"),
                       b \in At("UpdateConfiguration") : a < b /\ b < i
              /\ state' = 0 =>
                    /\ Later = {}
                    /\ UNCHANGED <<healthChecks, consumers, watchers>>
              /\ state' # 0 =>
                    /\ Cardinality(At("UpdateConfiguration")) = 1
                    /\ Cardinality(At("healthCheckFactory")) = 1
                    /\ Cardinality(At("Subscribe")) = 1
                    /\ Cardinality(At("go")) = 1
                    /\ Cardinality(At("topologyWatcherFactory")) =
                          Len(config.healthCheckCells)
                    /\ Before("healthCheckFactory", "Subscribe")
                    /\ Before("Subscribe", "go")
                    /\ Before("go", "topologyWatcherFactory")
                    /\ throttlers'[stateObjs'[state'].throttler].copyZeroValues
                    /\ throttlers'[stateObjs'[state'].throttler].configuration =
                          config.throttlerConfig]_vars

\* a successful Open() with two cells has just returned
C30_Witness ==
    /\ state # 0
    /\ lastCall.op = "Open"
    /\ ~lastCall.err
    /\ Len(lastCall.trace) = 7

\* C31: an Open() that opens the throttler creates exactly one watcher per
\* configured cell, in the configured order: the state holds as many watchers
\* as there are cells, all of them new and distinct, and the i-th one was
\* created for the i-th cell, the keyspace and shard of the target and the
\* health check of the same state.
C31_OneWatcherPerCell ==
    [][(config.enabled /\ state = 0 /\ state' # 0) =>
          LET so == stateObjs'[state']
              n  == Len(config.healthCheckCells)
          IN  /\ Len(so.topologyWatchers) = n
              /\ Len(watchers') = Len(watchers) + n
              /\ \A i \in 1..n :
                    /\ so.topologyWatchers[i] = Len(watchers) + i
                    /\ watchers'[so.topologyWatchers[i]].cell =
                          config.healthCheckCells[i]
                    /\ watchers'[so.topologyWatchers[i]].keyspace =
                          target.Keyspace
                    /\ watchers'[so.topologyWatchers[i]].shard = target.Shard
                    /\ watchers'[so.topologyWatchers[i]].hc = so.healthCheck
              /\ so.healthCheck = Len(healthChecks')
              /\ so.healthCheck > Len(healthChecks)]_vars

\* the second interval of a throttler with two cells has just been opened:
\* its watchers are the third and the fourth one
C31_Witness ==
    /\ state = 2
    /\ lastCall.op = "Open"
    /\ stateObjs[state].topologyWatchers = <<3, 4>>
    /\ watchers[4].cell = "zone2"
    /\ watchers[3].cell = "zone1"

\* the consumer goroutines that have not terminated
LiveConsumers == {c \in DOMAIN consumers : consumers[c].pc = "select"}

\* C32: there are as many consumers as states an Open() has built, and at
\* any time at most one consumer is live: the one of the open interval while
\* the throttler is open, none while it is closed.
C32_OneLiveConsumer ==
    /\ Len(consumers) = Len(stateObjs)
    /\ LiveConsumers =
          IF state # 0 THEN {stateObjs[state].stopHealthCheck} ELSE {}

\* the cancellation signal of consumer c is set
Cancelled(c) ==
    IF c \in DOMAIN consumers THEN consumers[c].ctxDone ELSE FALSE

\* where consumer c is, "none" before it is spawned
ConsumerPc(c) ==
    IF c \in DOMAIN consumers THEN consumers[c].pc ELSE "none"

\* C33: once the cancellation signal of a consumer is set, the consumer
\* terminates, whether or not the health stream delivers anything more; with
\* nothing in its channel the next iteration of its loop is its last one, and
\* a consumer that has seen the signal takes no event from its channel and
\* records nothing any more.
C33_CancelTerminatesConsumer ==
    /\ \A c \in 1..MaxOpens :
          Cancelled(c) ~> (ConsumerPc(c) \in {"done", "panic"})
    /\ [][\A c \in DOMAIN consumers :
             /\ (/\ consumers[c].ctxDone
                 /\ healthChecks[consumers[c].hc].ch = << >>
                 /\ ConsumerRun(c)) => consumers'[c].pc = "done"
             /\ consumers[c].pc = "done" =>
                   /\ consumers'[c] = consumers[c]
                   /\ Len(healthChecks'[consumers[c].hc].ch) >=
                         Len(healthChecks[consumers[c].hc].ch)
                   /\ \A t \in DOMAIN throttlers :
                         stateObjs[consumers[c].ts].throttler = t =>
                             throttlers'[t].lagRecords =
                                 throttlers[t].lagRecords]_vars

\* the consumer of the open interval was cancelled while the stream was idle
\* and has terminated; an event delivered since stays in the channel
C33_Witness ==
    /\ state = 1
    /\ consumers[1].ctxDone
    /\ consumers[1].pc = "done"
    /\ Len(healthChecks[1].ch) = 1
    /\ throttlers[1].lagRecords = {}

\* C34: a Close() that releases an open interval invokes ThreadFinished on
\* the throttler for caller id 0, the one thread id there is, before it
\* closes the throttler.
C34_ThreadFinishedBeforeClose ==
    (lastCall.op = "Close" /\ lastCall.trace # << >>) =>
        LET tr == lastCall.trace
            At(op) == {i \in DOMAIN tr : tr[i].op = op}
        IN  /\ At("throttler.Close") # {}
            /\ At("throttler.ThreadFinished") # {}
            /\ \A f \in At("throttler.ThreadFinished"),
                  c \in At("throttler.Close") :
                    f < c /\ tr[f].ref = tr[c].ref

\* C35: an Open() that fails leaves the throttler closed, and the next Open()
\* builds everything anew: when the factories succeed it returns no error
\* and the throttler is open with a new throttler that is configured and not
\* closed, a new health check with its subscription and its running
\* consumer and one new watcher per cell; whatever the failed attempt
\* created is left as it was and is no part of the new state.
C35_FailedOpenCanBeRetried ==
    [][/\ (config.enabled /\ lastCall'.op = "Open" /\ lastCall'.err) =>
             state' = 0
       /\ (/\ config.enabled /\ state = 0
           /\ lastCall.op = "Open" /\ lastCall.err
           /\ OpenWith(FALSE, FALSE)) =>
             /\ lastCall'.op = "Open"
             /\ lastCall'.outcome = "return"
             /\ ~lastCall'.err
             /\ Len(lastCall'.trace) = 5 + Len(config.healthCheckCells)
             /\ state' # 0
             /\ LET so == stateObjs'[state']
                IN  /\ so.throttler > Len(throttlers)
                    /\ throttlers'[so.throttler].configured
                    /\ throttlers'[so.throttler].closeCalls = 0
                    /\ so.healthCheck > Len(healthChecks)
                    /\ healthChecks'[so.healthCheck].closeCalls = 0
                    /\ healthChecks'[so.healthCheck].subscribers = 1
                    /\ so.stopHealthCheck > Len(consumers)
                    /\ consumers'[so.stopHealthCheck] =
                          [pc |-> "select", ctxDone |-> FALSE,
                           hc |-> so.healthCheck, ts |-> state']
                    /\ Len(so.topologyWatchers) = Len(config.healthCheckCells)
                    /\ \A w \in Refs(so.topologyWatchers) :
                          /\ w > Len(watchers)
                          /\ watchers'[w].hc = so.healthCheck
                          /\ watchers'[w].stopCalls = 0
             /\ \A t \in DOMAIN throttlers : throttlers'[t] = throttlers[t]]_vars

\* the first Open() failed in UpdateConfiguration and closed its throttler;
\* the next one has opened the throttler with a second one
C35_Witness ==
    /\ state = 1
    /\ Len(stateObjs) = 1
    /\ lastCall.op = "Open"
    /\ ~lastCall.err
    /\ Len(throttlers) = 2
    /\ ~throttlers[1].configured
    /\ throttlers[1].closeCalls = 1
    /\ stateObjs[state].throttler = 2

\* C36: the configuration of the throttler is the one its construction
\* derived from the tablet configuration and no step changes it, whichever
\* of Open, Close, Throttle, InitDBConfig and StatsUpdate it belongs to; a
\* Throttle() changes neither the state nor the target either.
C36_ConfigFixed ==
    /\ [](config = NewTxThrottler(tabletConfig))
    /\ [][/\ config' = config
          /\ tabletConfig' = tabletConfig
          /\ lastCall'.op = "Throttle" =>
                state' = state /\ target' = target]_vars

\* the throttler with two cells is in its second interval, a lag sample of
\* a replica has been recorded, the target has been replaced and Throttle()
\* has returned
C36_Witness ==
    /\ state = 2
    /\ Len(config.healthCheckCells) = 2
    /\ target.Keyspace = "ks2"
    /\ throttlers[stateObjs[state].throttler].lagRecords # {}
    /\ lastCall.op = "Throttle"
    /\ lastCall.outcome = "return"

\* C37: what the throttler stores is a copy of what the caller gave it: a
\* value the caller writes into its target object or its cell list afterwards
\* shows neither in the stored target or the stored cells nor in a health
\* check or a watcher that an Open() creates.
C37_StoredInputsAreCopies ==
    /\ target.Keyspace # OverwrittenKeyspace
    /\ \A i \in DOMAIN config.healthCheckCells :
          config.healthCheckCells[i] # OverwrittenCell
    /\ \A w \in DOMAIN watchers :
          /\ watchers[w].keyspace # OverwrittenKeyspace
          /\ watchers[w].cell # OverwrittenCell
    /\ \A hc \in DOMAIN healthChecks :
          \A i \in DOMAIN healthChecks[hc].cellsToWatch :
              healthChecks[hc].cellsToWatch[i] # OverwrittenCell

\* the caller has overwritten its target object and its two cells, and an
\* Open() has opened the throttler for the keyspace InitDBConfig was given
C37_Witness ==
    /\ callerTarget.Keyspace = OverwrittenKeyspace
    /\ tabletConfig.TxThrottlerHealthCheckCells =
          << OverwrittenCell, OverwrittenCell >>
    /\ state # 0
    /\ lastCall.op = "Open"
    /\ target.Keyspace = "ks2"
    /\ watchers[2].cell = "zone2"

\* C38: Open() on an enabled throttler whose target InitDBConfig has never
\* set panics on the nil target: it calls no factory, allocates nothing and
\* leaves the throttler closed.
C38_OpenWithoutTargetPanics ==
    [][(config.enabled /\ state = 0 /\ target.isNil /\ TxThrottlerOpen) =>
          /\ lastCall' = Call("Open", "panic")
          /\ state' = 0
          /\ UNCHANGED <<heapVars, target>>]_vars

\* Open() has panicked on the throttler that was given no target
C38_Witness ==
    /\ config.enabled
    /\ target.isNil
    /\ state = 0
    /\ lastCall = Call("Open", "panic")
    /\ throttlers = << >>

\* C39: an Open() builds the health check and the watchers of its interval
\* from the cell, the keyspace and the shard the target holds at that
\* moment, and they keep them as long as the interval lasts; a step that
\* replaces the target while the throttler is open changes nothing else, so
\* the new target is used by the next Open() only.
C39_IntervalKeepsTargetOfOpen ==
    [][/\ (config.enabled /\ state = 0 /\ state' # 0) =>
             LET so == stateObjs'[state']
             IN  /\ healthChecks'[so.healthCheck].cell = target.Cell
                 /\ target' = target
                 /\ \A w \in Refs(so.topologyWatchers) :
                       /\ watchers'[w].keyspace = target.Keyspace
                       /\ watchers'[w].shard = target.Shard
       /\ (state # 0 /\ state' = state) =>
             LET so == stateObjs[state]
             IN  /\ stateObjs'[state] = so
                 /\ healthChecks'[so.healthCheck].cell =
                       healthChecks[so.healthCheck].cell
                 /\ healthChecks'[so.healthCheck].cellsToWatch =
                       healthChecks[so.healthCheck].cellsToWatch
                 /\ \A w \in Refs(so.topologyWatchers) :
                       watchers'[w] = watchers[w]
       /\ (state # 0 /\ target' # target) =>
             UNCHANGED <<state, heapVars, config>>]_vars

\* the throttler was opened for ks1 and InitDBConfig has since replaced the
\* target: the watchers of the interval still watch ks1
C39_Witness ==
    /\ state # 0
    /\ lastCall.op = "InitDBConfig"
    /\ target.Keyspace = "ks2"
    /\ OpenKeyspace = "ks1"

\* C40: when the facade calls do not overlap, Close() is invoked at most once
\* on every throttler the factory has returned, the throttler a Throttle()
\* reaches has not been closed, and a Throttle() on the closed facade panics
\* and reaches no throttler.
C40_NoUseAfterClose ==
    /\ [](\A t \in DOMAIN throttlers : throttlers[t].closeCalls <= 1)
    /\ [][/\ lastCall'.op = "Throttle" =>
                \A i \in DOMAIN lastCall'.trace :
                    /\ lastCall'.trace[i].op = "throttler.Throttle"
                    /\ throttlers'[lastCall'.trace[i].ref].closeCalls = 0
          /\ (config.enabled /\ state = 0 /\ TxThrottlerThrottle) =>
                /\ lastCall'.outcome = "panic"
                /\ lastCall'.trace = << >>
                /\ UNCHANGED throttlers]_vars

\* two intervals have been opened and closed, each throttler was closed once,
\* and a Throttle() has panicked since
C40_Witness ==
    /\ state = 0
    /\ Len(throttlers) = 2
    /\ \A t \in DOMAIN throttlers :
          throttlers[t].configured /\ throttlers[t].closeCalls = 1
    /\ lastCall.op = "Throttle"
    /\ lastCall.outcome = "panic"

====
